---------------------------- MODULE Spec2Model ----------------------------
(***************************************************************************)
(* A model of the BME280 driver class of src/bme280_class.py: the three    *)
(* control bytes with their field mutators, sendCommand, and the           *)
(* compensation operations readTemp, readPress, readHum and readout.       *)
(*                                                                         *)
(* Python integers are unbounded; the control bytes are modelled as        *)
(* naturals and the masks (~0 << k) | m by what "&" does with them.        *)
(* NumPy scalars are modelled as two's-complement byte strings (little     *)
(* endian, 4 bytes for int32, 8 for int64) with wrap-around, under the     *)
(* promotion rules of the NumPy 1.x releases the code was written for: a   *)
(* Python int operand takes the platform's default integer type (C long).  *)
(* The width of that type is a property of the build (intBytes).           *)
(***************************************************************************)
EXTENDS Integers, Sequences, FiniteSets, TLC

VARIABLES
  ctrl_hum_val,   \* self.ctrl_hum_val
  ctrl_meas_val,  \* self.ctrl_meas_val
  config_val,     \* self.config_val
  t_fine,         \* self.t_fine
  adc_T,          \* self.adc_T
  adc_P,          \* self.adc_P
  adc_H,          \* self.adc_H
  T,              \* self.T
  P,              \* self.P
  H,              \* self.H
  bus,            \* the register writes issued on self.bus, oldest first
  call,           \* the last public operation called, with its inputs
  err,            \* how that call ended: "none" or the exception raised
  dig,            \* the locals dig_* decoded by the last read operation
  intBytes,       \* bytes of the build's default integer (C long): 4 or 8
  t_origin,       \* history: what wrote the stored t_fine
  t_used          \* history: the origins of the t_fine values the last call's
                  \* pressure and humidity computations consumed

vars == <<ctrl_hum_val, ctrl_meas_val, config_val, t_fine, adc_T, adc_P, adc_H,
          T, P, H, bus, call, err, dig, intBytes, t_origin, t_used>>

regs == <<ctrl_hum_val, ctrl_meas_val, config_val>>

readings == <<t_fine, adc_T, adc_P, adc_H, T, P, H>>

-----------------------------------------------------------------------------
(* Bit operations of Python integers on the non-negative values the bytes take. *)

RECURSIVE Pow2(_)
Pow2(n) == IF n = 0 THEN 1 ELSE 2 * Pow2(n - 1)

RECURSIVE BitAnd(_, _)
BitAnd(x, y) ==
  IF x = 0 \/ y = 0 THEN 0
  ELSE (x % 2) * (y % 2) + 2 * BitAnd(x \div 2, y \div 2)

RECURSIVE BitOr(_, _)
BitOr(x, y) ==
  IF x = 0 THEN y
  ELSE IF y = 0 THEN x
  ELSE (IF x % 2 = 1 \/ y % 2 = 1 THEN 1 ELSE 0) + 2 * BitOr(x \div 2, y \div 2)

\* x & ((~0 << k) | m) for x >= 0: every bit from k upwards is kept, a bit
\* below k is kept where m has it set.
AndMask(x, k, m) == (x \div Pow2(k)) * Pow2(k) + BitAnd(x % Pow2(k), m % Pow2(k))

\* The field of width w at bit offset lo of byte value x.
Field(x, lo, w) == (x \div Pow2(lo)) % Pow2(w)

-----------------------------------------------------------------------------
(* The enumerations. A member is <<class, value>>; Enum members compare    *)
(* equal only to themselves, never to a member of another class or to a    *)
(* plain integer of the same value.                                        *)

BME280OS == {<<"BME280OS", v>> : v \in 1..6}
OS_SKIP == <<"BME280OS", 1>>
OS1 == <<"BME280OS", 2>>
OS2 == <<"BME280OS", 3>>
OS4 == <<"BME280OS", 4>>
OS8 == <<"BME280OS", 5>>
OS16 == <<"BME280OS", 6>>

BME280Mode == {<<"BME280Mode", v>> : v \in 1..3}
SLEEP == <<"BME280Mode", 1>>
FORCED == <<"BME280Mode", 2>>
NORMAL == <<"BME280Mode", 3>>

BME280Standby == {<<"BME280Standby", v>> : v \in 1..8}
STANDBY0_5 == <<"BME280Standby", 1>>
STANDBY62_5 == <<"BME280Standby", 2>>
STANDBY125 == <<"BME280Standby", 3>>
STANDBY250 == <<"BME280Standby", 4>>
STANDBY500 == <<"BME280Standby", 5>>
STANDBY1000 == <<"BME280Standby", 6>>
STANDBY10 == <<"BME280Standby", 7>>
STANDBY20 == <<"BME280Standby", 8>>

BME280Filter == {<<"BME280Filter", v>> : v \in 1..5}
COEFFOFF == <<"BME280Filter", 1>>
COEFF2 == <<"BME280Filter", 2>>
COEFF4 == <<"BME280Filter", 3>>
COEFF8 == <<"BME280Filter", 4>>
COEFF16 == <<"BME280Filter", 5>>

\* A comparison by value alone, as between IntEnum members.
EnumEqByValue(a, b) == a[2] = b[2]

\* a == b between an argument and an Enum member.
EnumEq(a, b) == a = b

-----------------------------------------------------------------------------
(* The field mutators. Each is the whole method: the branch taken, its     *)
(* "&=" and "|=" statements, or the NameError of the else branch.          *)

Returned(op, arg) ==
  /\ call' = [op |-> op, arg |-> arg]
  /\ err' = "none"

Raised(op, arg, e) ==
  /\ call' = [op |-> op, arg |-> arg]
  /\ err' = e

setMode(mode) ==
  /\ IF EnumEq(mode, SLEEP)
       THEN ctrl_meas_val' = AndMask(ctrl_meas_val, 2, 0) /\ Returned("setMode", mode)
     ELSE IF EnumEq(mode, FORCED)
       THEN ctrl_meas_val' = BitOr(AndMask(ctrl_meas_val, 2, 0), 1) /\ Returned("setMode", mode)
     ELSE IF EnumEq(mode, NORMAL)
       THEN ctrl_meas_val' = BitOr(AndMask(ctrl_meas_val, 2, 0), 3) /\ Returned("setMode", mode)
     ELSE UNCHANGED ctrl_meas_val /\ Raised("setMode", mode, "NameError")
  /\ UNCHANGED <<ctrl_hum_val, config_val, readings, bus, dig, intBytes, t_origin, t_used>>

\* The constant or-ed into ctrl_hum by the branch of setOsrsHum for osrs
\* (0 when no branch matches).
OsrsHumBits(osrs) ==
  IF EnumEq(osrs, OS_SKIP) THEN 0
  ELSE IF EnumEq(osrs, OS1) THEN 1
  ELSE IF EnumEq(osrs, OS2) THEN 2
  ELSE IF EnumEq(osrs, OS4) THEN 3
  ELSE IF EnumEq(osrs, OS8) THEN 4
  ELSE IF EnumEq(osrs, OS16) THEN 5
  ELSE 0

IsOS(osrs) == \E m \in BME280OS : EnumEq(osrs, m)

setOsrsHum(osrs) ==
  /\ IF IsOS(osrs)
       THEN /\ ctrl_hum_val' = BitOr(AndMask(ctrl_hum_val, 3, 0), OsrsHumBits(osrs))
            /\ Returned("setOsrsHum", osrs)
       ELSE UNCHANGED ctrl_hum_val /\ Raised("setOsrsHum", osrs, "NameError")
  /\ UNCHANGED <<ctrl_meas_val, config_val, readings, bus, dig, intBytes, t_origin, t_used>>

\* The constant or-ed into ctrl_meas by the branch of setOsrsTemp for osrs:
\* 0b00011111, 0b00111111, 0b01011111, 0b01111111, 0b10011111, 0b10111111.
OsrsTempBits(osrs) ==
  IF EnumEq(osrs, OS_SKIP) THEN 31
  ELSE IF EnumEq(osrs, OS1) THEN 63
  ELSE IF EnumEq(osrs, OS2) THEN 95
  ELSE IF EnumEq(osrs, OS4) THEN 127
  ELSE IF EnumEq(osrs, OS8) THEN 159
  ELSE IF EnumEq(osrs, OS16) THEN 191
  ELSE 0

setOsrsTemp(osrs) ==
  /\ IF IsOS(osrs)
       THEN /\ ctrl_meas_val' = BitOr(AndMask(ctrl_meas_val, 8, 31), OsrsTempBits(osrs))
            /\ Returned("setOsrsTemp", osrs)
       ELSE UNCHANGED ctrl_meas_val /\ Raised("setOsrsTemp", osrs, "NameError")
  /\ UNCHANGED <<ctrl_hum_val, config_val, readings, bus, dig, intBytes, t_origin, t_used>>

\* The constant or-ed into ctrl_meas by the branch of setOsrsPress for osrs:
\* 0b11100011, 0b11100111, 0b11101011, 0b11101111, 0b11110011, 0b11110111.
OsrsPressBits(osrs) ==
  IF EnumEq(osrs, OS_SKIP) THEN 227
  ELSE IF EnumEq(osrs, OS1) THEN 231
  ELSE IF EnumEq(osrs, OS2) THEN 235
  ELSE IF EnumEq(osrs, OS4) THEN 239
  ELSE IF EnumEq(osrs, OS8) THEN 243
  ELSE IF EnumEq(osrs, OS16) THEN 247
  ELSE 0

setOsrsPress(osrs) ==
  /\ IF IsOS(osrs)
       THEN /\ ctrl_meas_val' = BitOr(AndMask(ctrl_meas_val, 5, 227), OsrsPressBits(osrs))
            /\ Returned("setOsrsPress", osrs)
       ELSE UNCHANGED ctrl_meas_val /\ Raised("setOsrsPress", osrs, "NameError")
  /\ UNCHANGED <<ctrl_hum_val, config_val, readings, bus, dig, intBytes, t_origin, t_used>>

IsStandby(rate) == \E m \in BME280Standby : EnumEq(rate, m)

\* Every branch of setRate is the same single statement,
\* config_val &= (~0 << 8) | 0b00011111; nothing is or-ed in.
setRate(rate) ==
  /\ IF IsStandby(rate)
       THEN /\ config_val' = AndMask(config_val, 8, 31)
            /\ Returned("setRate", rate)
       ELSE UNCHANGED config_val /\ Raised("setRate", rate, "NameError")
  /\ UNCHANGED <<ctrl_hum_val, ctrl_meas_val, readings, bus, dig, intBytes, t_origin, t_used>>

\* The low byte of the mask and-ed into config by the branch of
\* setFilterCoeff for coeff: 0b11100011, 0b11100111, 0b11101011,
\* 0b11101111, 0b11110011.
FilterMask(coeff) ==
  IF EnumEq(coeff, COEFFOFF) THEN 227
  ELSE IF EnumEq(coeff, COEFF2) THEN 231
  ELSE IF EnumEq(coeff, COEFF4) THEN 235
  ELSE IF EnumEq(coeff, COEFF8) THEN 239
  ELSE IF EnumEq(coeff, COEFF16) THEN 243
  ELSE 0

IsFilter(coeff) == \E m \in BME280Filter : EnumEq(coeff, m)

\* Each branch of setFilterCoeff is a single "&=": nothing is or-ed in.
setFilterCoeff(coeff) ==
  /\ IF IsFilter(coeff)
       THEN /\ config_val' = AndMask(config_val, 5, FilterMask(coeff))
            /\ Returned("setFilterCoeff", coeff)
       ELSE UNCHANGED config_val /\ Raised("setFilterCoeff", coeff, "NameError")
  /\ UNCHANGED <<ctrl_hum_val, ctrl_meas_val, readings, bus, dig, intBytes, t_origin, t_used>>

-----------------------------------------------------------------------------
(* NumPy integer scalars. A value is its two's-complement bytes, least     *)
(* significant first: 4 bytes for int32, 8 for int64. Arithmetic wraps.    *)
(* An operation on two scalars is done in the wider of the two types; a    *)
(* Python int operand counts as the default integer of the build.          *)

Max(a, b) == IF a >= b THEN a ELSE b

\* F(v) with v evaluated once: a local of the code, assigned and then used.
With(v, F(_)) == F(v)

\* The byte string <<F(1), ..., F(w)>> for a width w of 4, 8 or 16 bytes.
Bytes(F(_), w) ==
  IF w = 4 THEN <<F(1), F(2), F(3), F(4)>>
  ELSE IF w = 8 THEN <<F(1), F(2), F(3), F(4), F(5), F(6), F(7), F(8)>>
  ELSE <<F(1), F(2), F(3), F(4), F(5), F(6), F(7), F(8),
         F(9), F(10), F(11), F(12), F(13), F(14), F(15), F(16)>>

\* The w-byte scalar of the integer n, -2^31 <= n < 2^31.
FromInt(n, w) ==
  Bytes(LAMBDA i : IF i <= 4 THEN (n \div Pow2(8 * (i - 1))) % 256
                   ELSE IF n < 0 THEN 255 ELSE 0, w)

IsNeg(x) == x[Len(x)] >= 128

IsZero(x) == \A i \in 1..Len(x) : x[i] = 0

\* astype: truncation to w bytes, or sign extension.
Cast(x, w) ==
  IF Len(x) = w THEN x
  ELSE Bytes(LAMBDA i : IF i <= Len(x) THEN x[i] ELSE IF IsNeg(x) THEN 255 ELSE 0, w)

\* The integer of a scalar whose value lies in -2^31 .. 2^31-1.
ToInt(x) ==
  x[1] + 256 * x[2] + 65536 * x[3]
    + 16777216 * (IF x[4] >= 128 THEN x[4] - 256 ELSE x[4])

RECURSIVE AddRec(_, _, _, _)
AddRec(x, y, i, c) ==
  IF i > Len(x) THEN <<>>
  ELSE With(x[i] + y[i] + c, LAMBDA s : <<s % 256>> \o AddRec(x, y, i + 1, s \div 256))

Not(x) == Bytes(LAMBDA i : 255 - x[i], Len(x))

Add(x, y) ==
  LET w == Max(Len(x), Len(y)) IN AddRec(Cast(x, w), Cast(y, w), 1, 0)

Sub(x, y) ==
  LET w == Max(Len(x), Len(y)) IN AddRec(Cast(x, w), Not(Cast(y, w)), 1, 1)

RECURSIVE MulByteRec(_, _, _, _)
MulByteRec(y, b, i, c) ==
  IF i > Len(y) THEN <<>>
  ELSE With(y[i] * b + c, LAMBDA s : <<s % 256>> \o MulByteRec(y, b, i + 1, s \div 256))

\* x shifted up by q whole bytes, within its width.
ShiftBytes(x, q) == Bytes(LAMBDA i : IF i <= q THEN 0 ELSE x[i - q], Len(x))

RECURSIVE MulRec(_, _, _)
MulRec(x, y, i) ==
  IF i > Len(x) THEN Bytes(LAMBDA j : 0, Len(x))
  ELSE AddRec(ShiftBytes(MulByteRec(y, x[i], 1, 0), i - 1), MulRec(x, y, i + 1), 1, 0)

Mul(x, y) ==
  LET w == Max(Len(x), Len(y)) IN MulRec(Cast(x, w), Cast(y, w), 1)

\* x << k within the width of x (0 <= k < 8 * Len(x)).
Shl(x, k) == MulByteRec(ShiftBytes(x, k \div 8), Pow2(k % 8), 1, 0)

\* x >> k, the arithmetic (floor) shift, within the width of x.
Shr(x, k) ==
  LET w == Len(x)
      f == IF IsNeg(x) THEN 255 ELSE 0
      q == k \div 8
      r == k % 8
      y(i) == IF i + q <= w THEN x[i + q] ELSE f
  IN  Bytes(LAMBDA i : (y(i) \div Pow2(r)) + (y(i + 1) % Pow2(r)) * Pow2(8 - r), w)

\* x < y as signed values.
Less(x, y) ==
  IF IsNeg(x) # IsNeg(y) THEN IsNeg(x) ELSE IsNeg(Sub(x, y))

\* A Python int operand n of a scalar operation.
Py(n) == FromInt(n, intBytes)

\* np.int32(n), np.int64(n) of an integer n.
Int32(n) == FromInt(n, 4)
Int64(n) == FromInt(n, 8)

\* x >> k and x << k with the Python int k: done in the wider of x's type
\* and the default integer.
PyShr(x, k) == Shr(Cast(x, Max(Len(x), intBytes)), k)
PyShl(x, k) == Shl(Cast(x, Max(Len(x), intBytes)), k)

\* np.int16(v), np.int8(v) of a Python int v >= 0: the wrapped value.
AsInt16(v) == IF v % 65536 >= 32768 THEN (v % 65536) - 65536 ELSE v % 65536
AsInt8(v) == IF v % 256 >= 128 THEN (v % 256) - 256 ELSE v % 256

\* (hi << 8) | lo of two bytes read from the bus.
Word(lo, hi) == BitOr(hi * Pow2(8), lo)

-----------------------------------------------------------------------------
(* The compensation operations. A block read from the bus is a sequence    *)
(* of bytes; block[k] of the code is block[k + 1] here. Indexing a block   *)
(* past its end raises IndexError, before anything is stored.              *)

NoCoeffs == [T1 |-> 0, T2 |-> 0, T3 |-> 0]

\* The stored readings as one value, with how the operation ended.
Self ==
  [t_fine |-> t_fine, adc_T |-> adc_T, adc_P |-> adc_P, adc_H |-> adc_H,
   T |-> T, P |-> P, H |-> H, err |-> "none", dig |-> dig,
   t_origin |-> t_origin, t_used |-> {}]

\* self.P as a Python int n.
IntP(n) == [ty |-> "int", num |-> Int64(n), den |-> Int64(1)]

\* self.P as the float64 quotient num / den of two int64 scalars.
FloatP(num, den) == [ty |-> "float64", num |-> num, den |-> den]

\* ((msb & 255) << 12) | ((lsb & 255) << 4) | ((xlsb & 0b11110000) >> 4)
Adc20(r) ==
  BitOr(BitOr(BitAnd(r[1], 255) * Pow2(12), BitAnd(r[2], 255) * Pow2(4)),
        BitAnd(r[3], 240) \div Pow2(4))

TempCoeffs(cal) ==
  [T1 |-> Word(cal[1], cal[2]),
   T2 |-> AsInt16(Word(cal[3], cal[4])),
   T3 |-> AsInt16(Word(cal[5], cal[6]))]

\* var1 with the product shifted by 12 in place of 11.
TempVar1Shift12(adc, c) ==
  Cast(PyShr(Mul(Sub(PyShr(Int32(adc), 3), PyShl(Int32(c.T1), 1)), Int32(c.T2)), 12), 4)

TempVar1(adc, c) ==
  Cast(PyShr(Mul(Sub(PyShr(Int32(adc), 3), PyShl(Int32(c.T1), 1)), Int32(c.T2)), 11), 4)

TempVar2(adc, c) ==
  With(Sub(PyShr(Int32(adc), 4), Int32(c.T1)),
       LAMBDA d : Cast(PyShr(Mul(PyShr(Mul(d, d), 12), Int32(c.T3)), 14), 4))

TFine(adc, c) == Cast(Add(TempVar1(adc, c), TempVar2(adc, c)), 4)

\* np.int32((self.t_fine * 5 + 128) >> 8)
TempOut(tf) == Cast(PyShr(Add(Mul(tf, Py(5)), Py(128)), 8), 4)

\* The statements of readTemp from line 257 on, the coefficients decoded.
readTempWith(s, adc, c, tf) ==
  [s EXCEPT !.adc_T = adc, !.t_fine = ToInt(tf), !.T = ToInt(TempOut(tf)),
            !.dig = c, !.t_origin = "cycle"]

readTempOn(s, raw, cal) ==
  IF Len(cal) < 6 \/ Len(raw) < 3
    THEN [s EXCEPT !.err = "IndexError"]
    ELSE With(TempCoeffs(cal),
              LAMBDA c : With(Adc20(raw),
              LAMBDA adc : readTempWith(s, adc, c, TFine(adc, c))))

PressCoeffs(cal) ==
  [P1 |-> Word(cal[1], cal[2]),
   P2 |-> AsInt16(Word(cal[3], cal[4])),
   P3 |-> AsInt16(Word(cal[5], cal[6])),
   P4 |-> AsInt16(Word(cal[7], cal[8])),
   P5 |-> AsInt16(Word(cal[9], cal[10])),
   P6 |-> AsInt16(Word(cal[11], cal[12])),
   P7 |-> AsInt16(Word(cal[13], cal[14])),
   P8 |-> AsInt16(Word(cal[15], cal[16])),
   P9 |-> AsInt16(Word(cal[17], cal[18]))]

\* var1 = np.int64(self.t_fine) - 128000
PressV(tf) == Sub(Int64(tf), Py(128000))

\* var2 after its three statements.
PressVar2(tf, c) ==
  With(PressV(tf),
       LAMBDA v : Add(Add(Mul(Mul(v, v), Int64(c.P6)), PyShl(Mul(v, Int64(c.P5)), 17)),
                      PyShl(Int64(c.P4), 35)))

\* var1 after its two statements: the divisor.
PressVar1(tf, c) ==
  With(PressV(tf),
       LAMBDA v : PyShr(Mul(Add(PyShl(Int64(1), 47),
                                Add(PyShr(Mul(Mul(v, v), Int64(c.P3)), 8),
                                    PyShl(Mul(v, Int64(c.P2)), 12))),
                            Int64(c.P1)), 33))

\* A test that never takes the early return.
DivisorNeverZero(var1) == FALSE

\* if var1 == 0
DivisorIsZero(var1) == IsZero(var1)

\* (((np.int64(1048576 - self.adc_P) << 31) - var2) * 3125) / var1: true
\* division of two int64 scalars gives a float64.
PressQuotient(adc, var1, var2) ==
  FloatP(Mul(Sub(PyShl(Cast(Sub(Py(1048576), Int32(adc)), 8), 31), var2), Py(3125)), var1)

\* The statements of readPress from line 287 on. After the division self.P
\* is a float64, and self.P >> 13 of the next statement raises TypeError:
\* no shift is defined on floats.
readPressWith(s, adc, c, var1, var2) ==
  IF DivisorIsZero(var1)
    THEN [s EXCEPT !.adc_P = adc, !.P = IntP(0), !.dig = c,
                   !.t_used = s.t_used \cup {s.t_origin}]
    ELSE [s EXCEPT !.adc_P = adc, !.P = PressQuotient(adc, var1, var2), !.dig = c,
                   !.t_used = s.t_used \cup {s.t_origin}, !.err = "TypeError"]

readPressOn(s, raw, cal) ==
  IF Len(cal) < 18 \/ Len(raw) < 3
    THEN [s EXCEPT !.err = "IndexError"]
    ELSE With(PressCoeffs(cal),
              LAMBDA c : readPressWith(s, Adc20(raw), c, PressVar1(s.t_fine, c),
                                       PressVar2(s.t_fine, c)))

HumCoeffs(cal1, cal2) ==
  [H1 |-> cal1[1],
   H2 |-> AsInt16(Word(cal2[1], cal2[2])),
   H3 |-> cal2[3],
   H4 |-> AsInt16(BitOr(cal2[4] * Pow2(4), BitAnd(cal2[5], 15))),
   H5 |-> AsInt16(BitOr(cal2[6] * Pow2(4), cal2[5] \div Pow2(4))),
   H6 |-> AsInt8(cal2[7])]

\* v_x1_u32r = np.int32(self.t_fine - np.int32(76800))
HumV0(tf) == Cast(Sub(Int32(tf), Int32(76800)), 4)

\* The first factor of line 322.
HumFactorA(adc, v0, c) ==
  PyShr(Add(Sub(Sub(PyShl(Int32(adc), 14), PyShl(Int32(c.H4), 20)), Mul(Int32(c.H5), v0)),
            Int32(16384)), 15)

\* The second factor of line 322.
HumFactorB(v0, c) ==
  PyShr(Add(Mul(Add(PyShr(Mul(PyShr(Mul(v0, Int32(c.H6)), 10),
                              Add(PyShr(Mul(v0, Int32(c.H3)), 11), Int32(32768))), 10),
                    Int32(2097152)),
                Int32(c.H2)),
            Py(8192)), 14)

\* (v >> 15) * (v >> 15) of line 323.
HumSquare(h) == Mul(h, h)

\* Line 323.
HumLine323(v1, c) ==
  Sub(v1, PyShr(Mul(PyShr(HumSquare(PyShr(v1, 15)), 7), Int32(c.H1)), 4))

\* v_x1_u32r after the statements of lines 321 to 323.
HumRaw(adc, tf, c) ==
  With(HumV0(tf), LAMBDA v0 : HumLine323(Mul(HumFactorA(adc, v0, c), HumFactorB(v0, c)), c))

\* The upper limit alone missing.
ClampHumLowOnly(v) == IF Less(v, Py(0)) THEN Py(0) ELSE v

\* 419430400 if v > 419430400 else v
ClampHigh(v) == IF Less(Py(419430400), v) THEN Py(419430400) ELSE v

\* 0 if v < 0 else v, then 419430400 if v > 419430400 else v
ClampHum(v) == ClampHigh(IF Less(v, Py(0)) THEN Py(0) ELSE v)

\* The statements of readHum from line 320 on, the coefficients decoded.
readHumWith(s, adc, c) ==
  [s EXCEPT !.adc_H = adc, !.H = ToInt(PyShr(ClampHum(HumRaw(adc, s.t_fine, c)), 12)),
            !.dig = c, !.t_used = s.t_used \cup {s.t_origin},
            !.t_origin = IF s.t_origin = "cycle" THEN "previous" ELSE s.t_origin]

readHumOn(s, raw, cal1, cal2) ==
  IF Len(cal1) < 1 \/ Len(cal2) < 7 \/ Len(raw) < 2
    THEN [s EXCEPT !.err = "IndexError"]
    ELSE With(HumCoeffs(cal1, cal2),
              LAMBDA c : readHumWith(s, BitOr(raw[1] * Pow2(8), raw[2]), c))

\* The reading cycle of a readout is over when it returns or raises.
EndCycle(r) ==
  [r EXCEPT !.t_origin = IF r.t_origin = "cycle" THEN "previous" ELSE r.t_origin]

\* A call made only when the calls before it raised nothing.
Then(s, F(_)) == IF s.err # "none" THEN s ELSE F(s)

\* readTemp, readPress, readHum in turn; an exception ends the call.
readoutOn(s, in) ==
  EndCycle(Then(Then(readTempOn(s, in[1], in[2]),
                     LAMBDA s1 : readPressOn(s1, in[3], in[4])),
                LAMBDA s2 : readHumOn(s2, in[5], in[6], in[7])))

\* The stored values and the outcome after a read operation.
Store(op, arg, s) ==
  /\ call' = [op |-> op, arg |-> arg]
  /\ err' = s.err
  /\ t_fine' = s.t_fine
  /\ adc_T' = s.adc_T
  /\ adc_P' = s.adc_P
  /\ adc_H' = s.adc_H
  /\ T' = s.T
  /\ P' = s.P
  /\ H' = s.H
  /\ dig' = s.dig
  /\ t_origin' = s.t_origin
  /\ t_used' = s.t_used
  /\ UNCHANGED <<regs, bus, intBytes>>

readTemp(raw, cal) == Store("readTemp", <<raw, cal>>, readTempOn(Self, raw, cal))

readPress(raw, cal) == Store("readPress", <<raw, cal>>, readPressOn(Self, raw, cal))

readHum(raw, cal1, cal2) ==
  Store("readHum", <<raw, cal1, cal2>>, readHumOn(Self, raw, cal1, cal2))

readout(in) == Store("readout", in, readoutOn(Self, in))

-----------------------------------------------------------------------------
(* sendCommand, the constructor and the specifications.                    *)

sensor_addr == 118
ctrl_hum_addr == 242
ctrl_meas_addr == 244
config_addr == 245

\* A bound of the model: the calls of sendCommand a behaviour holds.
MaxSends == 1

\* bus.write_byte_data(addr, reg, val)
Write(reg, val) == [addr |-> sensor_addr, reg |-> reg, val |-> val]

\* The three writes with ctrl_meas before ctrl_hum.
sendCommandMeasFirst ==
  /\ Len(bus) < 3 * MaxSends
  /\ bus' = bus \o <<Write(config_addr, config_val),
                     Write(ctrl_meas_addr, ctrl_meas_val),
                     Write(ctrl_hum_addr, ctrl_hum_val)>>
  /\ Returned("sendCommand", <<>>)
  /\ UNCHANGED <<regs, readings, dig, intBytes, t_origin, t_used>>

sendCommand ==
  /\ Len(bus) < 3 * MaxSends
  /\ bus' = bus \o <<Write(config_addr, config_val),
                     Write(ctrl_hum_addr, ctrl_hum_val),
                     Write(ctrl_meas_addr, ctrl_meas_val)>>
  /\ Returned("sendCommand", <<>>)
  /\ UNCHANGED <<regs, readings, dig, intBytes, t_origin, t_used>>

\* The object after __init__, on a build of either integer width.
Init ==
  /\ ctrl_hum_val = 0
  /\ ctrl_meas_val = 0
  /\ config_val = 0
  /\ t_fine = 0
  /\ adc_T = 0
  /\ adc_P = 0
  /\ adc_H = 0
  /\ T = 0
  /\ P = [ty |-> "int", num |-> FromInt(0, 8), den |-> FromInt(1, 8)]
  /\ H = 0
  /\ bus = <<>>
  /\ call = [op |-> "__init__", arg |-> <<>>]
  /\ err = "none"
  /\ dig = NoCoeffs
  /\ intBytes \in {4, 8}
  /\ t_origin = "init"
  /\ t_used = {}

\* Arguments that are no member of the enumeration a mutator expects: the
\* member of another enumeration with the value 1, a plain int, None.
PlainInt == <<"int", 1>>
None == <<"NoneType", 0>>

ModeArgs == BME280Mode \cup {OS_SKIP, PlainInt, None}
OSArgs == BME280OS \cup {SLEEP, PlainInt, None}
StandbyArgs == BME280Standby \cup {COEFFOFF, PlainInt, None}
FilterArgs == BME280Filter \cup {STANDBY0_5, PlainInt, None}

\* The register model: every mutator with every argument.
Next ==
  \/ \E m \in ModeArgs : setMode(m)
  \/ \E o \in OSArgs : setOsrsHum(o)
  \/ \E o \in OSArgs : setOsrsTemp(o)
  \/ \E o \in OSArgs : setOsrsPress(o)
  \/ \E r \in StandbyArgs : setRate(r)
  \/ \E c \in FilterArgs : setFilterCoeff(c)

Spec == Init /\ [][Next]_vars

\* The register model with sendCommand: valid settings, written to the bus.
SendNext ==
  \/ \E m \in {FORCED, NORMAL} : setMode(m)
  \/ \E o \in {OS1, OS16} : setOsrsHum(o)
  \/ \E o \in {OS_SKIP, OS2} : setOsrsTemp(o)
  \/ \E o \in {OS4} : setOsrsPress(o)
  \/ \E r \in {STANDBY125} : setRate(r)
  \/ \E c \in {COEFF4} : setFilterCoeff(c)
  \/ sendCommand

SpecSend == Init /\ [][SendNext]_vars

-----------------------------------------------------------------------------
(* The blocks the bus hands to the read operations: well-formed ones, and  *)
(* ones shorter or longer than the length asked for.                       *)

\* Raw temperature 519888 (the datasheet's example), 0, 2^20-1, the example
\* with the four padding bits set, 2^19, 409600 and 17.
TempRawOK ==
  {<<126, 237, 0>>, <<0, 0, 0>>, <<255, 255, 240>>, <<126, 237, 15>>, <<128, 0, 0>>,
   <<100, 0, 0>>, <<0, 1, 16>>}
TempRawBad == {<<126, 237>>, <<126, 237, 0, 0>>}

\* T1=27504, T2=26435, T3=-1000 (the datasheet's example);
\* T1=27504, T2=-26435, T3=1000; T1=30000, T2=25000, T3=-5000.
TempCalExample == <<112, 107, 67, 103, 24, 252>>
TempCalOK == {TempCalExample, <<112, 107, 189, 152, 232, 3>>, <<48, 117, 168, 97, 120, 236>>}
TempCalBad == {<<112, 107, 67, 103, 24>>, <<112, 107, 67, 103, 24, 252, 0>>}

\* T1=28769, T2=32767, T3=0: with raw temperature 0, t_fine = -920580.
TempCalCold == <<97, 112, 255, 127, 0, 0>>

\* Raw pressure 415148 (the datasheet's example) and 0.
PressRawOK == {<<101, 90, 192>>, <<0, 0, 0>>}
PressRawBad == {<<101, 90>>, <<101, 90, 192, 0>>}

\* The datasheet's example coefficients (P1=36477, P2=-10685, P3=3024, ...);
\* the same with P1=0; and P1=1, P2=32767, P3=0.
PressCalExample == <<125, 142, 67, 214, 208, 11, 39, 11, 140, 0, 249, 255, 140, 60, 248, 198, 112, 23>>
PressCalP1Zero == <<0, 0, 67, 214, 208, 11, 39, 11, 140, 0, 249, 255, 140, 60, 248, 198, 112, 23>>
PressCalP1One == <<1, 0, 255, 127, 0, 0, 39, 11, 140, 0, 249, 255, 140, 60, 248, 198, 112, 23>>
PressCalOK == {PressCalExample, PressCalP1Zero, PressCalP1One}
PressCalBad == {SubSeq(PressCalExample, 1, 17), PressCalExample \o <<0>>}

HumRawOK == {<<0, 0>>, <<110, 0>>, <<255, 255>>}
HumRawBad == {<<110>>, <<110, 0, 0>>}

HumCal1OK == {<<75>>}
HumCal1Bad == {<<>>, <<75, 0>>}

\* H2=367, H3=0, H4=310, H5=50, H6=30; the same with 0xC8 as the byte of
\* H4's upper bits; H2=-367, H3=255, H6=-30 with 0x83 as the byte of H5's
\* upper bits.
HumCal2Example == <<111, 1, 0, 19, 38, 3, 30>>
HumCal2OK == {HumCal2Example, <<111, 1, 0, 200, 38, 3, 30>>, <<145, 254, 255, 19, 246, 131, 226>>}
HumCal2Bad == {SubSeq(HumCal2Example, 1, 6), HumCal2Example \o <<0>>}

\* The readTemp calls of the temperature model: every well-formed pair, and
\* each ill-formed block beside a well-formed one.
TempInputs ==
  (TempRawOK \X TempCalOK) \cup (TempRawBad \X {TempCalExample})
    \cup ({<<126, 237, 0>>} \X TempCalBad)

\* readTemp alone.
TempNext == \E in \in TempInputs : readTemp(in[1], in[2])

SpecTemp == Init /\ [][TempNext]_vars

\* The readTemp calls that set t_fine before a pressure or humidity
\* computation: t_fine = 128422, -721301 and -920580.
TFineInputs ==
  {<<<<126, 237, 0>>, TempCalExample>>, <<<<0, 0, 0>>, TempCalExample>>,
   <<<<0, 0, 0>>, TempCalCold>>}

PressInputs ==
  (PressRawOK \X PressCalOK) \cup (PressRawBad \X {PressCalExample})
    \cup ({<<101, 90, 192>>} \X PressCalBad)

\* readPress after none, one or several readTemp.
PressNext ==
  \/ \E in \in TFineInputs : readTemp(in[1], in[2])
  \/ \E in \in PressInputs : readPress(in[1], in[2])

SpecPress == Init /\ [][PressNext]_vars

HumInputs ==
  (HumRawOK \X HumCal1OK \X HumCal2OK)
    \cup (HumRawBad \X {<<75>>} \X {HumCal2Example})
    \cup ({<<110, 0>>} \X HumCal1Bad \X {HumCal2Example})
    \cup ({<<110, 0>>} \X {<<75>>} \X HumCal2Bad)

\* readHum after none, one or several readTemp.
HumNext ==
  \/ \E in \in TFineInputs : readTemp(in[1], in[2])
  \/ \E in \in HumInputs : readHum(in[1], in[2], in[3])

SpecHum == Init /\ [][HumNext]_vars

\* The blocks of one readout: raw and calibration block of the temperature,
\* of the pressure, and raw block and the two calibration blocks of the
\* humidity. All well-formed with P1 = 0; with the example's P1; with a
\* short raw temperature block.
ReadoutInputs ==
  {<<<<126, 237, 0>>, TempCalExample, <<101, 90, 192>>, PressCalP1Zero,
     <<110, 0>>, <<75>>, HumCal2Example>>,
   <<<<126, 237, 0>>, TempCalExample, <<101, 90, 192>>, PressCalExample,
     <<110, 0>>, <<75>>, HumCal2Example>>,
   <<<<126, 237>>, TempCalExample, <<101, 90, 192>>, PressCalP1Zero,
     <<110, 0>>, <<75>>, HumCal2Example>>}

\* The four read operations in any order.
CycleNext ==
  \/ \E cal \in {TempCalExample, TempCalExample \o <<0>>} : readTemp(<<126, 237, 0>>, cal)
  \/ \E cal \in {PressCalExample, PressCalP1Zero, PressCalP1Zero \o <<0>>} :
       readPress(<<101, 90, 192>>, cal)
  \/ \E raw \in {<<110, 0>>, <<110>>} : readHum(raw, <<75>>, HumCal2Example)
  \/ \E in \in ReadoutInputs : readout(in)

SpecCycle == Init /\ [][CycleNext]_vars

-----------------------------------------------------------------------------
(* The chip's code tables, as the comments of __init__ give them.          *)

\* osrs_h, osrs_t, osrs_p: 000 skipped, 001 x1, 010 x2, 011 x4, 100 x8, 101 x16.
OversamplingCode(v) == v[2] - 1

\* mode: 00 sleep, 01 forced, 11 normal.
ModeCode(v) == IF v = SLEEP THEN 0 ELSE IF v = FORCED THEN 1 ELSE 3

\* t_sb: 000 0.5 ms, 001 62.5, 010 125, 011 250, 100 500, 101 1000, 110 10, 111 20.
StandbyCode(v) == v[2] - 1

\* filter: 000 off, 001 2, 010 4, 011 8, 100 16.
FilterCode(v) == v[2] - 1

-----------------------------------------------------------------------------
(* The claims.                                                             *)

\* The bits of byte value x outside the field of width w at offset lo.
Outside(x, lo, w) == <<x % Pow2(lo), x \div Pow2(lo + w)>>

\* C1: a mutator called with a valid variant changes only the bits of its
\* own field: the other bits of the owning byte and the two other bytes
\* are as they were.
C1_OnlyOwnFieldChanges ==
  [][err' = "none" =>
       /\ call'.op = "setOsrsHum" =>
            /\ Outside(ctrl_hum_val', 0, 3) = Outside(ctrl_hum_val, 0, 3)
            /\ UNCHANGED <<ctrl_meas_val, config_val>>
       /\ call'.op = "setOsrsTemp" =>
            /\ Outside(ctrl_meas_val', 5, 3) = Outside(ctrl_meas_val, 5, 3)
            /\ UNCHANGED <<ctrl_hum_val, config_val>>
       /\ call'.op = "setOsrsPress" =>
            /\ Outside(ctrl_meas_val', 2, 3) = Outside(ctrl_meas_val, 2, 3)
            /\ UNCHANGED <<ctrl_hum_val, config_val>>
       /\ call'.op = "setMode" =>
            /\ Outside(ctrl_meas_val', 0, 2) = Outside(ctrl_meas_val, 0, 2)
            /\ UNCHANGED <<ctrl_hum_val, config_val>>
       /\ call'.op = "setRate" =>
            /\ Outside(config_val', 5, 3) = Outside(config_val, 5, 3)
            /\ UNCHANGED <<ctrl_hum_val, ctrl_meas_val>>
       /\ call'.op = "setFilterCoeff" =>
            /\ Outside(config_val', 2, 3) = Outside(config_val, 2, 3)
            /\ UNCHANGED <<ctrl_hum_val, ctrl_meas_val>>]_vars

\* C2: after a mutator returns, the bits of its field equal the chip's code
\* for the variant it was called with.
C2_FieldHoldsChipCode ==
  err = "none" =>
    /\ call.op = "setOsrsHum" => Field(ctrl_hum_val, 0, 3) = OversamplingCode(call.arg)
    /\ call.op = "setOsrsTemp" => Field(ctrl_meas_val, 5, 3) = OversamplingCode(call.arg)
    /\ call.op = "setOsrsPress" => Field(ctrl_meas_val, 2, 3) = OversamplingCode(call.arg)
    /\ call.op = "setMode" => Field(ctrl_meas_val, 0, 2) = ModeCode(call.arg)
    /\ call.op = "setRate" => Field(config_val, 5, 3) = StandbyCode(call.arg)
    /\ call.op = "setFilterCoeff" => Field(config_val, 2, 3) = FilterCode(call.arg)

\* C3: a step that writes to the bus is one sendCommand: exactly three
\* writes, config (0xF5), then ctrl_hum (0xF2), then ctrl_meas (0xF4), each
\* of the byte's value, a value in 0..255; with no mutator called before, the
\* three values are 0.
C3_ThreeWritesInOrder ==
  [][bus' # bus =>
       /\ Len(bus') = Len(bus) + 3
       /\ SubSeq(bus', 1, Len(bus)) = bus
       /\ bus'[Len(bus) + 1] = [addr |-> 118, reg |-> 245, val |-> config_val]
       /\ bus'[Len(bus) + 2] = [addr |-> 118, reg |-> 242, val |-> ctrl_hum_val]
       /\ bus'[Len(bus) + 3] = [addr |-> 118, reg |-> 244, val |-> ctrl_meas_val]
       /\ \A k \in 1..3 : bus'[Len(bus) + k].val \in 0..255
       /\ call.op = "__init__" => \A k \in 1..3 : bus'[Len(bus) + k].val = 0]_vars

\* C3's case: a sendCommand after mutators, with non-zero bytes written.
C3_Witness ==
  /\ call.op = "sendCommand"
  /\ Len(bus) = 3
  /\ bus[2].val # 0
  /\ bus[3].val # 0

\* C4: every pressure or humidity computation consumes a t_fine that a
\* temperature computation of the same reading cycle produced, never the
\* constructor's 0 or the value left by an earlier cycle.
C4_TFineOfSameCycle == t_used \subseteq {"cycle"}

\* The raw 20-bit value of a three-byte block, and 16-bit words.
RawOf(r) == (r[1] * 4096) + (r[2] * 16) + (r[3] \div 16)
U16(lo, hi) == lo + (256 * hi)
S16(lo, hi) == IF hi >= 128 THEN U16(lo, hi) - 65536 ELSE U16(lo, hi)

\* The datasheet's formula in integers, a right shift being a floor division.
FormulaTFine(raw, T1, T2, T3) ==
  ((((raw \div 8) - (T1 * 2)) * T2) \div 2048)
    + ((((((raw \div 16) - T1) * ((raw \div 16) - T1)) \div 4096) * T3) \div 16384)

\* C5: readTemp stores t_fine = var1 + var2 and T = (t_fine * 5 + 128) >> 8
\* of the datasheet's formula, whatever was stored before; the datasheet's
\* example gives T = 2508 and t_fine = 128422.
C5_TemperatureFormula ==
  (call.op = "readTemp" /\ err = "none") =>
    /\ adc_T = RawOf(call.arg[1])
    /\ t_fine = FormulaTFine(RawOf(call.arg[1]),
                             U16(call.arg[2][1], call.arg[2][2]),
                             S16(call.arg[2][3], call.arg[2][4]),
                             S16(call.arg[2][5], call.arg[2][6]))
    /\ T = (t_fine * 5 + 128) \div 256
    /\ (RawOf(call.arg[1]) = 519888 /\ SubSeq(call.arg[2], 1, 6) = <<112, 107, 67, 103, 24, 252>>)
         => (T = 2508 /\ t_fine = 128422)

\* C5's case: the datasheet's example, read over the readings of a call before.
C5_Witness ==
  /\ call = [op |-> "readTemp", arg |-> <<<<126, 237, 0>>, <<112, 107, 67, 103, 24, 252>>>>]
  /\ err = "none"
  /\ T = 2508
  /\ t_fine = 128422

\* The intermediate that readHum clamps, from the call's blocks.
HumUnclamped ==
  HumRaw(BitOr(call.arg[1][1] * 256, call.arg[1][2]), t_fine,
         HumCoeffs(call.arg[2], call.arg[3]))

\* C6: readHum clamps the intermediate to [0, 419430400] before the shift
\* by 12: H is in [0, 102400], 0 for a negative intermediate and 102400 for
\* one above 419430400.
C6_HumidityClamped ==
  /\ H \in 0..102400
  /\ (call.op = "readHum" /\ err = "none") =>
       /\ IsNeg(HumUnclamped) => H = 0
       /\ Less(FromInt(419430400, 8), HumUnclamped) => H = 102400

\* C6's case: an intermediate above 419430400.
C6_Witness ==
  /\ call.op = "readHum"
  /\ err = "none"
  /\ Less(FromInt(419430400, 8), HumUnclamped)
  /\ H = 102400

\* The divisor var1 that a readPress call with the calibration block cal
\* evaluates, from the t_fine it finds stored.
DivisorOfCall(cal) == PressVar1(t_fine, PressCoeffs(cal))

\* C7: when the divisor evaluates to 0, as whenever P1 = 0, readPress
\* returns without an exception and without dividing, and the stored
\* pressure is 0; a division that is performed is by a non-zero divisor.
C7_ZeroDivisorGivesZero ==
  (call.op = "readPress" /\ err # "IndexError") =>
    /\ IsZero(DivisorOfCall(call.arg[2])) =>
         (err = "none" /\ P = [ty |-> "int", num |-> FromInt(0, 8), den |-> FromInt(1, 8)])
    /\ U16(call.arg[2][1], call.arg[2][2]) = 0 => IsZero(DivisorOfCall(call.arg[2]))
    /\ P.ty # "int" => ~IsZero(P.den)

\* C7's case: a divisor of 0 with P1 = 1, after a raw pressure was read.
C7_Witness ==
  /\ call.op = "readPress"
  /\ err = "none"
  /\ U16(call.arg[2][1], call.arg[2][2]) = 1
  /\ IsZero(DivisorOfCall(call.arg[2]))
  /\ adc_P = 415148
  /\ P.ty = "int"

\* The closed variant set of each mutator's field.
VariantsOf(op) ==
  IF op = "setMode" THEN BME280Mode
  ELSE IF op \in {"setOsrsHum", "setOsrsTemp", "setOsrsPress"} THEN BME280OS
  ELSE IF op = "setRate" THEN BME280Standby
  ELSE BME280Filter

Mutators ==
  {"setMode", "setOsrsHum", "setOsrsTemp", "setOsrsPress", "setRate", "setFilterCoeff"}

\* C8: a mutator called with a value outside the variant set of its field
\* raises, and the three control bytes are what they were.
C8_InvalidSettingRejected ==
  [][(call'.op \in Mutators /\ call'.arg \notin VariantsOf(call'.op)) =>
       (err' = "NameError" /\ UNCHANGED regs)]_vars

\* C8's case: setMode called with a member of the oversampling enumeration,
\* after the control bytes were set.
C8_Witness ==
  /\ call = [op |-> "setMode", arg |-> OS_SKIP]
  /\ err = "NameError"
  /\ ctrl_meas_val # 0
  /\ ctrl_hum_val # 0

\* C9: a read operation handed a block whose length differs from the
\* expected one raises, and changes none of the stored values.
C9_MalformedBlockRejected ==
  [][((call'.op = "readTemp" /\ (Len(call'.arg[1]) # 3 \/ Len(call'.arg[2]) # 6))
        \/ (call'.op = "readPress" /\ (Len(call'.arg[1]) # 3 \/ Len(call'.arg[2]) # 18))
        \/ (call'.op = "readHum" /\ (Len(call'.arg[1]) # 2 \/ Len(call'.arg[2]) # 1
                                       \/ Len(call'.arg[3]) # 7)))
       => (err' # "none" /\ UNCHANGED readings)]_vars

\* A 12-bit two's-complement value.
Signed12(v) == IF v >= 2048 THEN v - 4096 ELSE v

\* C10: readHum decodes the packed coefficients as signed 12-bit values:
\* H4 from byte 3 and the low nibble of byte 4, H5 from byte 5 and the high
\* nibble of byte 4 of the block at 0xE1.
C10_PackedCoefficientsSigned ==
  (call.op = "readHum" /\ err = "none") =>
    /\ dig.H4 = Signed12((call.arg[3][4] * 16) + (call.arg[3][5] % 16))
    /\ dig.H5 = Signed12((call.arg[3][6] * 16) + (call.arg[3][5] \div 16))

=============================================================================
